---- MODULE Spec2Model ----
(***************************************************************************)
(* The epochoverlay element (ext/pango/gstepochoverlay.c): the text        *)
(* provider gst_epoch_overlay_get_text, the class initialiser that         *)
(* configures the shared Pango context under pango_lock, the instance      *)
(* initialiser and the two property handlers.                              *)
(*                                                                         *)
(* Strings are sequences of one-character strings.  A 64-bit unsigned      *)
(* value is a sequence of 8 bytes, least significant first, so that the    *)
(* arithmetic of `micro * 1000000L + tp.tv_usec' wraps as it does in C.    *)
(***************************************************************************)
EXTENDS Integers, Sequences, FiniteSets, TLC

\* ------------------------------------------------------------------------
\* Bounds of the model
\* ------------------------------------------------------------------------
MaxClassInits == 2     \* runs of gst_epoch_overlay_class_init
MaxPropCalls == 3      \* property get/set calls issued in one behaviour
MaxPropId == 1         \* property ids are drawn from 0 .. MaxPropId

\* ------------------------------------------------------------------------
\* Program constants
\* ------------------------------------------------------------------------
PANGO_SCALE == 1024
FontSize == 50
MicrosPerSecond == 1000000
U64Bytes == 8
ByteBase == 256

\* ------------------------------------------------------------------------
\* Unsigned fixed-width arithmetic on byte sequences (little endian)
\* ------------------------------------------------------------------------
Zero(w) == [i \in 1..w |-> 0]

IsZero(a) == \A i \in 1..Len(a) : a[i] = 0

RECURSIVE MulAddFrom(_, _, _, _)
MulAddFrom(a, m, c, i) ==
  IF i > Len(a) THEN <<>>
  ELSE LET v == a[i] * m + c
       IN  <<v % ByteBase>> \o MulAddFrom(a, m, v \div ByteBase, i + 1)

\* a * m + c in the width of a; the carry out of the top byte is dropped
MulAdd(a, m, c) == MulAddFrom(a, m, c, 1)

\* the value of a decimal digit sequence (most significant first) in w bytes
RECURSIVE FromDecimal(_, _)
FromDecimal(ds, w) ==
  IF ds = <<>> THEN Zero(w)
  ELSE MulAdd(FromDecimal(SubSeq(ds, 1, Len(ds) - 1), w), 10, ds[Len(ds)])

\* remainder of (bytes i .. Len(a) of a) modulo 10
RECURSIVE Rem10(_, _)
Rem10(a, i) ==
  IF i > Len(a) THEN 0 ELSE (Rem10(a, i + 1) * ByteBase + a[i]) % 10

Quot10(a) ==
  [i \in 1..Len(a) |-> (Rem10(a, i + 1) * ByteBase + a[i]) \div 10]

\* decimal digits of a, most significant first, by repeated division by 10
RECURSIVE ToDecimal(_)
ToDecimal(a) ==
  IF IsZero(Quot10(a)) THEN <<Rem10(a, 1)>>
  ELSE ToDecimal(Quot10(a)) \o <<Rem10(a, 1)>>

DigitChars == <<"0", "1", "2", "3", "4", "5", "6", "7", "8", "9">>

DigitString(ds) == [i \in 1..Len(ds) |-> DigitChars[ds[i] + 1]]

\* sprintf (buf, "%" PRIu64, micro)
FormatU64(a) == DigitString(ToDecimal(a))

\* sprintf (buf, "gettimeofday failed")
FailText ==
  <<"g", "e", "t", "t", "i", "m", "e", "o", "f", "d", "a", "y", " ",
    "f", "a", "i", "l", "e", "d">>

\* ------------------------------------------------------------------------
\* Clock outcomes seen by gettimeofday
\* ------------------------------------------------------------------------
Reading(ret, sec, usec) == [ret |-> ret, tv_sec |-> sec, tv_usec |-> usec]

\* tv_sec samples, as decimal digits: a present-day reading, the last second
\* whose microsecond count can fit in 64 bits, the first one whose count
\* cannot, and the largest 64-bit time_t
SecNow == <<1, 7, 0, 0, 0, 0, 0, 0, 0, 0>>
SecLastFit == <<1, 8, 4, 4, 6, 7, 4, 4, 0, 7, 3, 7, 0, 9>>
SecFirstWrap == <<1, 8, 4, 4, 6, 7, 4, 4, 0, 7, 3, 7, 1, 0>>
SecMax == <<9, 2, 2, 3, 3, 7, 2, 0, 3, 6, 8, 5, 4, 7, 7, 5, 8, 0, 7>>

\* gettimeofday returned 0 and filled tp; SecLastFit with 551615
\* microseconds is 2^64 - 1 microseconds, with 551616 it is 2^64
ClockReadings ==
  { Reading(0, <<0>>, 0),
    Reading(0, <<0>>, 999999),
    Reading(0, <<1>>, 500000),
    Reading(0, SecNow, 551615),
    Reading(0, SecLastFit, 551615),
    Reading(0, SecLastFit, 551616),
    Reading(0, SecFirstWrap, 0),
    Reading(0, SecMax, 0),
    Reading(0, SecMax, 999999) }

\* gettimeofday returned -1; tp keeps whatever the stack held
ClockFailures ==
  { Reading(-1, <<0>>, 0),
    Reading(-1, SecNow, 999999) }

ClockOutcomes == ClockReadings \cup ClockFailures

NoClock == Reading(1, <<0>>, 0)

\* ------------------------------------------------------------------------
\* State
\* ------------------------------------------------------------------------
VARIABLES
  klass,             \* GstEpochOverlayClass: vfuncs and metadata
  pango_lock,        \* owner of klass->pango_lock: "free", "class_init", "other"
  pango_context,     \* klass->pango_context
  font_description,  \* local of class_init: <<>> is no description
  ci_pc,             \* source line class_init is about to run; 0 outside it
  ci_runs,           \* completed runs of class_init
  other_pc,          \* another user of pango_lock: "idle" or "render"
  inst,              \* "none", "allocated" (base init ran), "ready"
  overlay,           \* GstBaseTextOverlay fields of the instance
  object_lock,       \* owner of the instance's object lock, or "free"
  pc,                \* per thread: "idle", "lock", "dispatch" or "unlock"
  call,              \* per thread: arguments of the handler being run
  prop_calls,        \* property get/set calls started
  warnings,          \* G_OBJECT_WARN_INVALID_PROPERTY_ID diagnostics emitted
  clock,             \* outcome of the last gettimeofday of get_text
  ret_text           \* string returned by the last get_text

vars ==
  <<klass, pango_lock, pango_context, font_description, ci_pc, ci_runs,
    other_pc, inst, overlay, object_lock, pc, call, prop_calls, warnings, clock,
    ret_text>>

classVars ==
  <<klass, pango_lock, pango_context, font_description, ci_pc, ci_runs>>
instVars == <<inst, overlay>>
propVars == <<object_lock, pc, call, prop_calls, warnings>>
textVars == <<clock, ret_text>>

PropThreads == {"t1", "t2"}
PropIds == 0..MaxPropId

\* the GValue of a call: the new value of a set, the caller's still unset
\* value of a get
GValueOf(op) == IF op = "set" THEN "NEW" ELSE "UNSET"

NoCall == [op |-> "none", prop_id |-> 0, value |-> "NONE"]

\* the class structure as copied from GstBaseTextOverlayClass
ParentClass ==
  [finalize |-> "parent", set_property |-> "parent",
   get_property |-> "parent", get_text |-> "parent", longname |-> "parent"]

\* contexts the base class may hand over
InitialContexts ==
  { [language |-> "C", base_dir |-> "WEAK_LTR",
     font_desc |-> [family |-> "", style |-> "NORMAL", variant |-> "NORMAL",
                    weight |-> "NORMAL", stretch |-> "NORMAL", size |-> 0]],
    [language |-> "he_IL", base_dir |-> "RTL",
     font_desc |-> [family |-> "Sans", style |-> "ITALIC",
                    variant |-> "NORMAL", weight |-> "BOLD",
                    stretch |-> "NORMAL", size |-> 10 * PANGO_SCALE]] }

\* instances as the base class's instance initialiser leaves them
BaseInstances ==
  { [valign |-> "BASELINE", halign |-> "CENTER", need_render |-> TRUE,
     text |-> <<>>, line_align |-> "CENTER"],
    [valign |-> "BOTTOM", halign |-> "RIGHT", need_render |-> TRUE,
     text |-> <<"h", "i">>, line_align |-> "LEFT"] }

NoInstance ==
  [valign |-> "NONE", halign |-> "NONE", need_render |-> FALSE,
   text |-> <<>>, line_align |-> "NONE"]

NullText == [null |-> TRUE, chars |-> <<>>]

Init ==
  /\ klass = ParentClass
  /\ pango_lock = "free"
  /\ pango_context \in InitialContexts
  /\ font_description = <<>>
  /\ ci_pc = 0
  /\ ci_runs = 0
  /\ other_pc = "idle"
  /\ inst = "none"
  /\ overlay = NoInstance
  /\ object_lock = "free"
  /\ pc = [t \in PropThreads |-> "idle"]
  /\ call = [t \in PropThreads |-> NoCall]
  /\ prop_calls = 0
  /\ warnings = 0
  /\ clock = NoClock
  /\ ret_text = NullText

\* ------------------------------------------------------------------------
\* Pango operations used by class_init
\* ------------------------------------------------------------------------
pango_context_set_language(ctx, lang) == [ctx EXCEPT !.language = lang]

pango_context_set_base_dir(ctx, dir) == [ctx EXCEPT !.base_dir = dir]

pango_font_description_new ==
  [family |-> "", style |-> "NORMAL", variant |-> "NORMAL",
   weight |-> "NORMAL", stretch |-> "NORMAL", size |-> 0]

\* the context keeps a copy of the description
pango_context_set_font_description(ctx, desc) ==
  [ctx EXCEPT !.font_desc = desc]

\* the defaults class_init is to leave in the shared context
FontDefaults ==
  [language |-> "en_US", base_dir |-> "LTR",
   font_desc |-> [family |-> "Courier", style |-> "NORMAL",
                  variant |-> "NORMAL", weight |-> "NORMAL",
                  stretch |-> "NORMAL", size |-> FontSize * PANGO_SCALE]]

\* ------------------------------------------------------------------------
\* gst_epoch_overlay_class_init, one action per statement
\* ------------------------------------------------------------------------
\* the type system runs class_init before any instance exists
ClassInitMayRun ==
  /\ ci_pc = 0
  /\ inst = "none"
  /\ ci_runs < MaxClassInits

\* lines 99-112: vfuncs and element metadata
ClassInitSetup ==
  /\ ClassInitMayRun
  /\ klass' = [klass EXCEPT !.finalize = "gst_epoch_overlay_finalize",
                            !.set_property = "gst_epoch_overlay_set_property",
                            !.get_property = "gst_epoch_overlay_get_property",
                            !.longname = "Epoch overlay",
                            !.get_text = "gst_epoch_overlay_get_text"]
  /\ ci_pc' = 114
  /\ UNCHANGED <<pango_lock, pango_context, font_description, ci_runs,
                 other_pc, instVars, propVars, textVars>>

CIStep(from, to) ==
  /\ ci_pc = from
  /\ ci_pc' = to
  /\ UNCHANGED <<klass, ci_runs, other_pc, instVars, propVars, textVars>>

\* line 114: g_mutex_lock (gsttextoverlay_class->pango_lock) blocks until free
ClassInitLock_NoWait ==
  /\ CIStep(114, 117)
  /\ pango_lock' = "class_init"
  /\ UNCHANGED <<pango_context, font_description>>

ClassInitLock ==
  /\ CIStep(114, 117)
  /\ pango_lock = "free"
  /\ pango_lock' = "class_init"
  /\ UNCHANGED <<pango_context, font_description>>

\* line 117
ClassInitSetLanguage ==
  /\ CIStep(117, 118)
  /\ pango_context' = pango_context_set_language(pango_context, "en_US")
  /\ UNCHANGED <<pango_lock, font_description>>

\* line 118
ClassInitSetBaseDir ==
  /\ CIStep(118, 120)
  /\ pango_context' = pango_context_set_base_dir(pango_context, "LTR")
  /\ UNCHANGED <<pango_lock, font_description>>

\* line 120
ClassInitDescNew ==
  /\ CIStep(120, 121)
  /\ font_description' = <<pango_font_description_new>>
  /\ UNCHANGED <<pango_lock, pango_context>>

\* lines 121-126: the setters on the local description
DescSetter(line) ==
  CASE line = 121 -> [field |-> "family", value |-> "Courier", next |-> 122]
    [] line = 122 -> [field |-> "style", value |-> "NORMAL", next |-> 123]
    [] line = 123 -> [field |-> "variant", value |-> "NORMAL", next |-> 124]
    [] line = 124 -> [field |-> "weight", value |-> "NORMAL", next |-> 125]
    [] line = 125 -> [field |-> "stretch", value |-> "NORMAL", next |-> 126]
    [] line = 126 -> [field |-> "size", value |-> FontSize * PANGO_SCALE,
                      next |-> 127]

ClassInitDescSet ==
  \E line \in 121..126 :
    /\ CIStep(line, DescSetter(line).next)
    /\ font_description' =
         <<[font_description[1] EXCEPT
              ![DescSetter(line).field] = DescSetter(line).value]>>
    /\ UNCHANGED <<pango_lock, pango_context>>

\* line 127, with a description that adds to the size already configured
ClassInitSetFontDescription_Accumulate ==
  /\ CIStep(127, 128)
  /\ pango_context' =
       pango_context_set_font_description(pango_context,
         [font_description[1] EXCEPT
            !.size = pango_context.font_desc.size + @])
  /\ UNCHANGED <<pango_lock, font_description>>

\* line 127
ClassInitSetFontDescription ==
  /\ CIStep(127, 128)
  /\ pango_context' =
       pango_context_set_font_description(pango_context, font_description[1])
  /\ UNCHANGED <<pango_lock, font_description>>

\* line 128
ClassInitDescFree ==
  /\ CIStep(128, 129)
  /\ font_description' = <<>>
  /\ UNCHANGED <<pango_lock, pango_context>>

\* lines 129-130: g_mutex_unlock and return
ClassInitUnlock ==
  /\ ci_pc = 129
  /\ ci_pc' = 0
  /\ ci_runs' = ci_runs + 1
  /\ pango_lock' = "free"
  /\ UNCHANGED <<klass, pango_context, font_description, other_pc,
                 instVars, propVars, textVars>>

gst_epoch_overlay_class_init ==
  \/ ClassInitSetup
  \/ ClassInitLock
  \/ ClassInitSetLanguage
  \/ ClassInitSetBaseDir
  \/ ClassInitDescNew
  \/ ClassInitDescSet
  \/ ClassInitSetFontDescription
  \/ ClassInitDescFree
  \/ ClassInitUnlock

\* ------------------------------------------------------------------------
\* Another holder of pango_lock (rendering by the base class)
\* ------------------------------------------------------------------------
OtherLock ==
  /\ other_pc = "idle"
  /\ pango_lock = "free"
  /\ pango_lock' = "other"
  /\ other_pc' = "render"
  /\ UNCHANGED <<klass, pango_context, font_description, ci_pc, ci_runs,
                 instVars, propVars, textVars>>

OtherUnlock ==
  /\ other_pc = "render"
  /\ pango_lock' = "free"
  /\ other_pc' = "idle"
  /\ UNCHANGED <<klass, pango_context, font_description, ci_pc, ci_runs,
                 instVars, propVars, textVars>>

\* ------------------------------------------------------------------------
\* Instance construction
\* ------------------------------------------------------------------------
\* g_object_new up to the base class's instance initialiser
BaseInstanceInit ==
  /\ inst = "none"
  /\ ci_pc = 0
  /\ ci_runs >= 1
  /\ inst' = "allocated"
  /\ overlay' \in BaseInstances
  /\ UNCHANGED <<classVars, other_pc, propVars, textVars>>

\* lines 147-148, with the alignment of the base class kept
overlay_init_KeepHalign(ov) == [ov EXCEPT !.valign = "TOP"]

\* lines 147-148
overlay_init(ov) == [ov EXCEPT !.valign = "TOP", !.halign = "LEFT"]

gst_epoch_overlay_init ==
  /\ inst = "allocated"
  /\ inst' = "ready"
  /\ overlay' = overlay_init(overlay)
  /\ UNCHANGED <<classVars, other_pc, propVars, textVars>>

\* ------------------------------------------------------------------------
\* gst_epoch_overlay_get_text
\* ------------------------------------------------------------------------
\* line 78: unsigned long long micro = tp.tv_sec
tv_sec_value(tp) == FromDecimal(tp.tv_sec, U64Bytes)

\* line 79 with milliseconds in place of microseconds
EpochMicros_Millis(tp) ==
  MulAdd(MulAdd(tv_sec_value(tp), 1000, 0), 1, tp.tv_usec)

\* line 79: micro = micro * 1000000L + tp.tv_usec, in unsigned long long
EpochMicros(tp) ==
  MulAdd(MulAdd(tv_sec_value(tp), MicrosPerSecond, 0), 1, tp.tv_usec)

\* two's complement negation in the width of a
Negate(a) == MulAdd([i \in 1..Len(a) |-> ByteBase - 1 - a[i]], 1, 1)

\* lines 76-83 with the value printed as a signed 64-bit integer
get_text_buf_Signed(c) ==
  IF c.ret = 0
  THEN LET micro == EpochMicros(c)
       IN  IF micro[U64Bytes] >= ByteBase \div 2
           THEN <<"-">> \o FormatU64(Negate(micro))
           ELSE FormatU64(micro)
  ELSE FailText

\* lines 76-83 without the test of gettimeofday's return value
get_text_buf_NoCheck(c) == FormatU64(EpochMicros(c))

\* lines 76-83: the contents of buf for clock outcome c
get_text_buf(c) ==
  IF c.ret = 0 THEN FormatU64(EpochMicros(c)) ELSE FailText

\* line 88: a fresh copy of a non-NULL string
g_strdup(str) == [null |-> FALSE, chars |-> str]

\* lines 85-86 with need_render set in the success branch only
get_text_overlay_SuccessOnly(ov, buf) ==
  IF buf = FailText THEN ov ELSE [ov EXCEPT !.need_render = TRUE]

\* lines 85-86 with the assignment of line 86 in effect
get_text_overlay_StoreText(ov, buf) ==
  [ov EXCEPT !.need_render = TRUE, !.text = buf]

\* lines 85-86: overlay->need_render = TRUE; the text field is not written
get_text_overlay(ov, buf) == [ov EXCEPT !.need_render = TRUE]

\* every clock outcome paired with the contents of buf it leads to
ClockBufs == {<<c, get_text_buf(c)>> : c \in ClockOutcomes}

gst_epoch_overlay_get_text ==
  /\ inst = "ready"
  /\ klass.get_text = "gst_epoch_overlay_get_text"
  /\ \E cb \in ClockBufs :
       /\ clock' = cb[1]
       /\ overlay' = get_text_overlay(overlay, cb[2])
       /\ ret_text' = g_strdup(cb[2])
  /\ UNCHANGED <<classVars, other_pc, inst, propVars>>

\* the base class clears the flag once it has rendered the text
HostClearNeedRender ==
  /\ inst = "ready"
  /\ overlay.need_render
  /\ overlay' = [overlay EXCEPT !.need_render = FALSE]
  /\ UNCHANGED <<classVars, other_pc, inst, propVars, textVars>>

\* ------------------------------------------------------------------------
\* gst_epoch_overlay_set_property / gst_epoch_overlay_get_property
\* ------------------------------------------------------------------------
\* a thread enters one of the two handlers
PropertyCall(t) ==
  /\ inst = "ready"
  /\ pc[t] = "idle"
  /\ prop_calls < MaxPropCalls
  /\ \E op \in {"set", "get"}, id \in PropIds :
       call' = [call EXCEPT
                  ![t] = [op |-> op, prop_id |-> id, value |-> GValueOf(op)]]
  /\ pc' = [pc EXCEPT ![t] = "lock"]
  /\ prop_calls' = prop_calls + 1
  /\ UNCHANGED <<classVars, other_pc, instVars, object_lock, warnings,
                 textVars>>

\* lines 156 / 170 without waiting for the lock
PropertyLock_NoWait(t) ==
  /\ pc[t] = "lock"
  /\ object_lock' = t
  /\ pc' = [pc EXCEPT ![t] = "dispatch"]
  /\ UNCHANGED <<classVars, other_pc, instVars, call, prop_calls, warnings,
                 textVars>>

\* lines 156 / 170: GST_OBJECT_LOCK (overlay)
PropertyLock(t) ==
  /\ pc[t] = "lock"
  /\ object_lock = "free"
  /\ object_lock' = t
  /\ pc' = [pc EXCEPT ![t] = "dispatch"]
  /\ UNCHANGED <<classVars, other_pc, instVars, call, prop_calls, warnings,
                 textVars>>

\* lines 157-161 / 171-175 with a case for property id 1 (an alignment)
PropertyDispatch_Case1(t) ==
  /\ pc[t] = "dispatch"
  /\ IF call[t].prop_id = 1
     THEN /\ IF call[t].op = "set"
             THEN /\ overlay' = [overlay EXCEPT !.halign = "CENTER",
                                                !.need_render = TRUE]
                  /\ call' = call
             ELSE /\ call' = [call EXCEPT ![t].value = overlay.halign]
                  /\ overlay' = overlay
          /\ warnings' = warnings
     ELSE /\ warnings' = warnings + 1
          /\ UNCHANGED <<overlay, call>>
  /\ pc' = [pc EXCEPT ![t] = "unlock"]
  /\ UNCHANGED <<classVars, other_pc, inst, object_lock, prop_calls,
                 textVars>>

\* lines 157-161 / 171-175: every id takes the default branch
PropertyDispatch(t) ==
  /\ pc[t] = "dispatch"
  /\ warnings' = warnings + 1
  /\ pc' = [pc EXCEPT ![t] = "unlock"]
  /\ UNCHANGED <<classVars, other_pc, instVars, object_lock, call,
                 prop_calls, textVars>>

\* lines 162-163 / 176-177: GST_OBJECT_UNLOCK (overlay) and return
PropertyUnlock(t) ==
  /\ pc[t] = "unlock"
  /\ object_lock' = "free"
  /\ pc' = [pc EXCEPT ![t] = "idle"]
  /\ call' = [call EXCEPT ![t] = NoCall]
  /\ UNCHANGED <<classVars, other_pc, instVars, prop_calls, warnings,
                 textVars>>

PropertyHandler(t, op) ==
  /\ call[t].op = op
  /\ \/ PropertyLock(t)
     \/ PropertyDispatch(t)
     \/ PropertyUnlock(t)

gst_epoch_overlay_set_property(t) == PropertyHandler(t, "set")

gst_epoch_overlay_get_property(t) == PropertyHandler(t, "get")

\* ------------------------------------------------------------------------
\* Specification
\* ------------------------------------------------------------------------
Next ==
  \/ gst_epoch_overlay_class_init
  \/ OtherLock
  \/ OtherUnlock
  \/ BaseInstanceInit
  \/ gst_epoch_overlay_init
  \/ gst_epoch_overlay_get_text
  \/ HostClearNeedRender
  \/ \E t \in PropThreads : PropertyCall(t)
  \/ \E t \in PropThreads : gst_epoch_overlay_set_property(t)
  \/ \E t \in PropThreads : gst_epoch_overlay_get_property(t)

Spec == Init /\ [][Next]_vars

\* ------------------------------------------------------------------------
\* Decimal numerals, independently of the byte arithmetic above
\* ------------------------------------------------------------------------
\* the six decimal digits of a microsecond fraction 0 .. 999999
Pad6(u) ==
  <<(u \div 100000) % 10, (u \div 10000) % 10, (u \div 1000) % 10,
    (u \div 100) % 10, (u \div 10) % 10, u % 10>>

RECURSIVE StripZeros(_)
StripZeros(ds) ==
  IF Len(ds) > 1 /\ ds[1] = 0 THEN StripZeros(Tail(ds)) ELSE ds

\* the decimal digits of seconds * 1000000 + microseconds: the digits of
\* the seconds followed by the six digits of the fraction
DecimalOfMicros(tp) == StripZeros(tp.tv_sec \o Pad6(tp.tv_usec))

\* the digits of 2^64 - 1
U64MaxDigits == ToDecimal([i \in 1..U64Bytes |-> ByteBase - 1])

LexLeq(a, b) ==
  \/ a = b
  \/ \E i \in 1..Len(a) :
       /\ a[i] < b[i]
       /\ \A j \in 1..(i - 1) : a[j] = b[j]

\* ds is the numeral of a value in 0 .. 2^64 - 1
FitsU64(ds) ==
  \/ Len(ds) < Len(U64MaxDigits)
  \/ Len(ds) = Len(U64MaxDigits) /\ LexLeq(ds, U64MaxDigits)

IsDigitChar(ch) == \E d \in 1..10 : DigitChars[d] = ch

CharDigit(ch) == (CHOOSE d \in 1..10 : DigitChars[d] = ch) - 1

\* str is a decimal numeral without leading zero of a value in 0 .. 2^64 - 1
IsU64Numeral(str) ==
  /\ Len(str) >= 1
  /\ \A i \in 1..Len(str) : IsDigitChar(str[i])
  /\ Len(str) > 1 => str[1] # "0"
  /\ FitsU64([i \in 1..Len(str) |-> CharDigit(str[i])])

\* a width that holds seconds * 1000000 + microseconds for every time_t
WideBytes == U64Bytes + 3

\* the numeral of (the value of digits ds) modulo 2^64
Mod64Digits(ds) == ToDecimal(SubSeq(FromDecimal(ds, WideBytes), 1, U64Bytes))

\* readings paired with the numeral of seconds * 1000000 + microseconds
ExactTexts ==
  {<<c, DigitString(DecimalOfMicros(c))>> : c \in ClockReadings}

\* readings paired with the numeral of that value reduced modulo 2^64
Mod64Texts ==
  {<<c, DigitString(Mod64Digits(DecimalOfMicros(c)))>> : c \in ClockReadings}

\* readings whose microsecond count is below 2^64
InRangeReadings == {c \in ClockReadings : FitsU64(DecimalOfMicros(c))}

Called == clock # NoClock

\* ------------------------------------------------------------------------
\* Claims
\* ------------------------------------------------------------------------

\* C1 as stated: whenever gettimeofday succeeds, the returned string is the
\* decimal numeral of seconds * 1000000 + microseconds, for every reading.
C1_ExactForEveryReading ==
  clock.ret = 0 => <<clock, ret_text.chars>> \in ExactTexts

\* C1 amended: whenever gettimeofday succeeds, the returned string is the
\* decimal numeral of (seconds * 1000000 + microseconds) modulo 2^64, which
\* is the numeral of seconds * 1000000 + microseconds itself for every
\* reading whose microsecond count is below 2^64.
C1_ExactModulo64 ==
  clock.ret = 0 =>
    /\ ~ret_text.null
    /\ <<clock, ret_text.chars>> \in Mod64Texts
    /\ clock \in InRangeReadings => <<clock, ret_text.chars>> \in ExactTexts

C1_Witness ==
  /\ clock.ret = 0
  /\ clock.tv_sec = <<1>>
  /\ clock.tv_usec = 500000
  /\ ret_text.chars = <<"1", "5", "0", "0", "0", "0", "0">>

\* C2: whenever gettimeofday fails, the call still returns a string, and
\* that string is exactly "gettimeofday failed".
C2_FailureText ==
  clock.ret = -1 => (~ret_text.null /\ ret_text.chars = FailText)

C2_Witness == clock.ret = -1 /\ ~ret_text.null

\* C3: every call of get_text, on the success and on the failure path and
\* whatever the flag and the previous text were, leaves need_render TRUE.
C3_AlwaysNeedRender ==
  [][gst_epoch_overlay_get_text => overlay'.need_render]_vars

\* the flag is set after a call on the failure path
C3_Witness ==
  /\ clock.ret = -1
  /\ ret_text.chars = FailText
  /\ overlay.need_render

\* C4: once get_text has been called, the returned string is not NULL and is
\* either the failure literal or the decimal numeral of a value in
\* 0 .. 2^64 - 1.
C4_WellFormedText ==
  Called =>
    /\ ~ret_text.null
    /\ \/ ret_text.chars = FailText
       \/ IsU64Numeral(ret_text.chars)

C4_Witness ==
  /\ Called
  /\ Len(ret_text.chars) = Len(U64MaxDigits)
  /\ IsU64Numeral(ret_text.chars)

\* C5: every step of a property handler, for set and for get and for every
\* property id, leaves the instance fields, the shared context and the
\* call's GValue unchanged, and the dispatch emits one diagnostic.
C5_PropertyNoEffect ==
  [][\A t \in PropThreads :
       (pc[t] # "idle" /\ pc'[t] # pc[t]) =>
         /\ overlay' = overlay
         /\ pango_context' = pango_context
         /\ pc'[t] # "idle" => call'[t] = call[t]
         /\ pc[t] = "dispatch" => warnings' = warnings + 1
         /\ pc[t] # "dispatch" => warnings' = warnings]_vars

C5_Witness ==
  \E t \in PropThreads :
    /\ pc[t] = "unlock"
    /\ call[t].prop_id = MaxPropId
    /\ call[t].op = "get"
    /\ warnings = prop_calls

\* C6: the step of gst_epoch_overlay_init sets the vertical alignment to top
\* and the horizontal alignment to left and keeps every other field of the
\* instance as the base class left it.
C6_InitAlignment ==
  [][(inst = "allocated" /\ inst' = "ready") =>
       /\ overlay'.valign = "TOP"
       /\ overlay'.halign = "LEFT"
       /\ overlay'.need_render = overlay.need_render
       /\ overlay'.text = overlay.text
       /\ overlay'.line_align = overlay.line_align]_vars

C6_Witness ==
  /\ inst = "ready"
  /\ overlay.valign = "TOP"
  /\ overlay.halign = "LEFT"
  /\ overlay.line_align = "LEFT"
  /\ overlay.text = <<"h", "i">>

\* C7: after class_init has run to its end, once or several times in a row,
\* the shared context holds the font defaults, the local description is
\* gone and class_init does not hold pango_lock.
C7_ClassInitIdempotent ==
  (ci_runs >= 1 /\ ci_pc = 0) =>
    /\ pango_context = FontDefaults
    /\ font_description = <<>>
    /\ pango_lock # "class_init"

C7_Witness ==
  /\ ci_runs = 2
  /\ ci_pc = 0
  /\ pango_context = FontDefaults
  /\ pango_lock = "free"

\* C8: class_init holds pango_lock at every statement between its lock and
\* its unlock, no other user holds the lock meanwhile, class_init does not
\* hold it outside that block, and it is not held by class_init once an
\* instance exists whose get_text can run.
C8_ContextUnderLock ==
  /\ ci_pc \in 117..129 => (pango_lock = "class_init" /\ other_pc = "idle")
  /\ ci_pc \in {0, 114} => pango_lock # "class_init"
  /\ inst # "none" => pango_lock # "class_init"

C8_Witness ==
  /\ ci_pc = 127
  /\ ci_runs = 1
  /\ pango_lock = "class_init"

\* C9: a call of get_text changes no field of the instance other than
\* need_render, nor the shared context, and a call that sees the same clock
\* outcome as the call before it returns the same string.
C9_GetTextFrame ==
  [][gst_epoch_overlay_get_text =>
       /\ overlay'.valign = overlay.valign
       /\ overlay'.halign = overlay.halign
       /\ overlay'.text = overlay.text
       /\ overlay'.line_align = overlay.line_align
       /\ pango_context' = pango_context
       /\ inst' = inst
       /\ clock' = clock => ret_text' = ret_text]_vars

C9_Witness ==
  /\ Called
  /\ overlay.text = <<"h", "i">>
  /\ ~overlay.need_render
  /\ pango_context = FontDefaults

\* C10: a thread is inside the dispatch of a property handler only while it
\* owns the object lock, so no two threads are there together, and when no
\* thread is inside a handler's locked region the lock is free.
C10_ObjectLock ==
  /\ \A t \in PropThreads :
       pc[t] \in {"dispatch", "unlock"} => object_lock = t
  /\ (\A t \in PropThreads : pc[t] \in {"idle", "lock"}) =>
       object_lock = "free"

C10_Witness ==
  /\ pc["t1"] = "dispatch"
  /\ pc["t2"] = "lock"
  /\ object_lock = "t1"
  /\ prop_calls = MaxPropCalls

====
